---- MODULE Spec2Model ----
(***************************************************************************)
(* Model of the two Monte Carlo notebooks of the repository:               *)
(*   - monte_carlo_hoop_strength.ipynb : failure probability of a vessel   *)
(*     (loop form and vectorized form);                                     *)
(*   - monte_carlo_integration.ipynb   : three integral estimates.          *)
(* A notebook is a kernel whose cells run top to bottom; the names N,       *)
(* failures, accum, ... are kernel globals that persist between cells.      *)
(* The literals of a cell that configure a run (N, the bounds of the 1D     *)
(* integration domains) are inputs, drawn from small sets when the cell     *)
(* starts.  Floating-point values are modelled as exact rationals plus the  *)
(* IEEE specials inf, -inf and nan; rounding is not modelled.               *)
(***************************************************************************)
EXTENDS Integers, Sequences, FiniteSets, TLC

\* ------------------------------------------------------------------ bounds

\* Largest trial count a cell may be configured with (the notebooks use
\* 10_000 and 100_000).
MaxN == 2

\* Largest number of draws taken from the generator after a seeding: what one
\* run of the loop form with MaxN trials takes.
MaxDraws == 3 * MaxN

\* How many times the experiment, or a cell picked in any order, may be run in
\* one kernel.
MaxPasses == 2

\* Trial counts a cell may be configured with: the valid ones and N <= 0.
NValues == (-1) .. MaxN

\* Standard-normal draws the generator may return (z-scores).  -20 makes the
\* wall thickness 4 + 0.2*z exactly zero and the radius 60 + 3*z exactly zero.
ZSet == {-20, -10, 0}

\* Uniform draws on [0,1) the generator may return, as fractions <<n, d>>.
USet == {<<0, 1>>, <<1, 2>>}

\* --------------------------------------------------------- float64 values

\* A float is <<kind, n, d>>: kind "fin" is the rational n/d (d > 0, lowest
\* terms); "inf", "ninf" and "nan" are the IEEE specials; "uninit" is an
\* entry of numpy.empty() that was never written.
Abs(n) == IF n < 0 THEN -n ELSE n

\* The arithmetic is written as functions of the operand values, so that an
\* operand is evaluated once however often the result is used.
FloatDom == {"fin", "inf", "ninf", "nan", "uninit"} \X Int \X Int

Euclid[p \in Nat \X Nat] == IF p[2] = 0 THEN p[1] ELSE Euclid[<<p[2], p[1] % p[2]>>]
Gcd(a, b) == Euclid[<<a, b>>]

FinOf[p \in Int \X Int] ==
    LET n == p[1]
        d == p[2]
        s == IF d < 0 THEN -1 ELSE 1
        g == Gcd(Abs(n), Abs(d))
    IN  <<"fin", (s * n) \div g, (s * d) \div g>>
Fin(n, d) == FinOf[<<n, d>>]

INF == <<"inf", 0, 1>>
NINF == <<"ninf", 0, 1>>
NAN == <<"nan", 0, 1>>
UNINIT == <<"uninit", 0, 1>>

\* float(n) of a Python int.
FromInt(n) == Fin(n, 1)

IsFin(a) == a[1] = "fin"
IsNan(a) == a[1] = "nan"

\* -1, 0 or 1; of a nan, 0.
Sign(a) ==
    CASE a[1] = "inf" -> 1
      [] a[1] = "ninf" -> -1
      [] a[1] = "fin" -> (IF a[2] > 0 THEN 1 ELSE IF a[2] < 0 THEN -1 ELSE 0)
      [] OTHER -> 0

Signed(s) == IF s > 0 THEN INF ELSE IF s < 0 THEN NINF ELSE NAN

FAddOf[p \in FloatDom \X FloatDom] ==
    LET a == p[1]
        b == p[2]
    IN  CASE IsNan(a) \/ IsNan(b) -> NAN
          [] IsFin(a) /\ IsFin(b) -> Fin(a[2] * b[3] + b[2] * a[3], a[3] * b[3])
          [] IsFin(a) -> b
          [] IsFin(b) -> a
          [] OTHER -> IF a = b THEN a ELSE NAN
FAdd(a, b) == FAddOf[<<a, b>>]

FMulOf[p \in FloatDom \X FloatDom] ==
    LET a == p[1]
        b == p[2]
    IN  CASE IsNan(a) \/ IsNan(b) -> NAN
          [] IsFin(a) /\ IsFin(b) -> Fin(a[2] * b[2], a[3] * b[3])
          [] OTHER -> Signed(Sign(a) * Sign(b))
FMul(a, b) == FMulOf[<<a, b>>]

\* numpy float64 division: a division by zero gives inf, -inf or nan (and a
\* RuntimeWarning), never an exception.
FDivOf[p \in FloatDom \X FloatDom] ==
    LET a == p[1]
        b == p[2]
    IN  CASE IsNan(a) \/ IsNan(b) -> NAN
          [] IsFin(a) /\ IsFin(b) ->
                IF b[2] = 0 THEN Signed(Sign(a)) ELSE Fin(a[2] * b[3], a[3] * b[2])
          [] IsFin(a) -> Fin(0, 1)
          [] IsFin(b) -> IF Sign(b) < 0 THEN Signed(-Sign(a)) ELSE Signed(Sign(a))
          [] OTHER -> NAN
FDiv(a, b) == FDivOf[<<a, b>>]

\* a > b of two floats: False as soon as one of them is nan.
FGTOf[p \in FloatDom \X FloatDom] ==
    LET a == p[1]
        b == p[2]
    IN  CASE IsNan(a) \/ IsNan(b) -> FALSE
          [] IsFin(a) /\ IsFin(b) -> a[2] * b[3] > b[2] * a[3]
          [] a[1] = "inf" -> b[1] # "inf"
          [] a[1] = "ninf" -> FALSE
          [] OTHER -> b[1] = "ninf"
FGT(a, b) == FGTOf[<<a, b>>]

RECURSIVE SumSeq(_)
SumSeq(s) == IF s = <<>> THEN Fin(0, 1) ELSE FAdd(SumSeq(SubSeq(s, 1, Len(s) - 1)), s[Len(s)])

\* ------------------------------------------------------------------ state

VARIABLES
    nb,               \* which notebook this kernel runs
    config,           \* the literals (N, 1D bounds) of the simulation cells run so far
    cell,             \* the cell being executed
    pc,               \* position in it: start, configured, running, ..., completed, failed
    err,              \* the exception that stopped the notebook, or "none"
    N,                \* kernel global N
    i,                \* position of the range(N) iterator: trials executed so far
    failures,         \* kernel global failures
    stresses,         \* kernel global stresses (numpy array)
    yield_strengths,  \* kernel global yield_strengths (numpy array)
    radius,           \* vectorized form: array of radii
    W,                \* vectorized form: array of wall thicknesses
    yield_strength,   \* vectorized form: array of yield strengths
    accum,            \* integration: running sum
    x,                \* integration: last sample of the first coordinate
    y,                \* integration: last sample of the second coordinate
    measure,          \* integration: measure of the domain
    dom,              \* integration: bounds <<low, high>> of the first coordinate
    out,              \* the value the last executed cell displayed
    tape,             \* the generator's stream since its seed, as far as drawn
    pos,              \* number of draws taken since the generator was seeded
    hist,             \* history: one record per executed trial of the current run
    written,          \* history: per index, how often stresses / yield_strengths were written
    startPos,         \* history: generator position when the current run was configured
    runs,             \* history: the completed loop-form runs
    passes,           \* how many times the experiment has been started, or a cell picked
    par               \* the workers that count a finished run's trials again, in shares

vars == <<nb, config, cell, pc, err, N, i, failures, stresses, yield_strengths, radius, W,
          yield_strength, accum, x, y, measure, dom, out, tape, pos, hist, written,
          startPos, runs, passes, par>>

hoopVars == <<failures, stresses, yield_strengths, written>>
vecVars == <<radius, W, yield_strength>>
intVars == <<accum, x, y, measure, dom>>
genVars == <<tape, pos>>
envVars == <<nb, config, passes, par>>

HoopCells == <<"loop", "prob", "aside", "vec">>
IntCells == <<"int1", "int2", "int2d">>
CellsOf(n) == IF n = "hoop" THEN HoopCells ELSE IntCells

\* The bounds a cell may give its first coordinate: the notebook's, and a
\* degenerate interval low = high.  The hoop cells have none.
Domains(c) ==
    CASE c = "int1" -> {<<1, 5>>, <<5, 5>>}
      [] c = "int2" -> {<<2, 3>>, <<3, 3>>}
      [] c = "int2d" -> {<<4, 6>>}
      [] OTHER -> {<<0, 0>>}

\* The literals a simulation cell may hold.
CellConfigs(c) == {[N |-> n, dom |-> d] : n \in NValues, d \in Domains(c)}

\* The literals of cell c: any, the first time it runs; the same ones every
\* time it runs again.
Literals(c) == IF c \in DOMAIN config THEN {config[c]} ELSE CellConfigs(c)

\* ------------------------------------------------------------- generator

\* The raw values the generator can return in this notebook.
RawSet == IF nb = "hoop" THEN ZSet ELSE USet

\* The next n draws: what the stream already holds at these positions, any
\* value where it has not been drawn yet.
NextDraws(n) ==
    {s \in [1 .. n -> RawSet] :
        \A j \in 1 .. n : pos + j <= Len(tape) => s[j] = tape[pos + j]}

\* The generator after the draws s.
Drawn(s) ==
    LET n == Len(s)
        m == IF pos + n > Len(tape) THEN pos + n ELSE Len(tape)
    IN  /\ tape' = [k \in 1 .. m |-> IF k > pos /\ k <= pos + n THEN s[k - pos] ELSE tape[k]]
        /\ pos' = pos + n

\* A run that needs k draws fits the model's bound on the stream.
DrawsFit(k) == k <= 0 \/ pos + k <= MaxDraws

\* scipy.stats.norm(mean, mean*cv).rvs(): loc + scale * z.
Norm(mean, cv, z) == FAdd(FromInt(mean), FMul(FMul(FromInt(mean), cv), FromInt(z)))

\* numpy.random.uniform(low, high): low + (high - low) * u, u in [0, 1).
UniformNoOffset(low, high, u) == FMul(FromInt(high - low), Fin(u[1], u[2]))
Uniform(low, high, u) ==
    FAdd(FromInt(low), FMul(FromInt(high - low), Fin(u[1], u[2])))

\* ------------------------------------------- hoop notebook: the loop form

\* Internal pressure, constant.
P == 10

\* Coefficients of variation of the radius / wall thickness, and of the yield strength.
CV5 == Fin(1, 20)
CV10 == Fin(1, 10)

\* simulated_stress(): P * radius / W of the two normal samples it draws.
simulated_stress_inverted(zr, zw) ==
    FDiv(FMul(FromInt(P), Norm(4, CV5, zw)), Norm(60, CV5, zr))
simulated_stress(zr, zw) ==
    FDiv(FMul(FromInt(P), Norm(60, CV5, zr)), Norm(4, CV5, zw))

\* simulated_yield_strength(): the one normal sample it draws.
simulated_yield_strength(zy) == Norm(200, CV10, zy)

\* failures = 0
StaleFailures == failures
InitialFailures == 0

\* len(range(N)): the number of iterations of "for i in range(N)".
RangeLenShort(n) == IF n > 1 THEN n - 1 ELSE 0
RangeLen(n) == IF n > 0 THEN n ELSE 0

\* if stresses[i] > yield_strengths[i]
ExceedsOrTies(s, ys) == FGT(s, ys) \/ s = ys
ExceedsNotLE(s, ys) == ~(FGT(ys, s) \/ ys = s)
Exceeds(s, ys) == FGT(s, ys)

\* stresses[i] = ...; yield_strengths[i] = ...: index i of Python is entry i + 1 here.
StoreAtZero(a, idx, v) == [a EXCEPT ![1] = v]
Store(a, idx, v) == [a EXCEPT ![idx + 1] = v]

\* if ...: failures += 1
CountedAssign(f, fails) == IF fails THEN 1 ELSE f
Counted(f, fails) == IF fails THEN f + 1 ELSE f

\* failures / float(N), for N # 0
ProbabilityOffByOne(f, n) == FDiv(FromInt(f), FromInt(n - 1))
Probability(f, n) == FDiv(FromInt(f), FromInt(n))

\* N = ...; failures = 0; stresses = numpy.empty(N); yield_strengths = numpy.empty(N)
\* numpy.empty raises ValueError for a negative size.
LoopSetup ==
    /\ cell = "loop" /\ pc = "start"
    /\ \E lit \in Literals(cell) : LET n == lit.N IN
        /\ DrawsFit(3 * n)
        /\ config' = (cell :> lit) @@ config
        /\ N' = n
        /\ failures' = InitialFailures
        /\ IF n < 0
           THEN /\ pc' = "failed" /\ err' = "ValueError"
                /\ UNCHANGED <<stresses, yield_strengths>>
           ELSE /\ pc' = "configured" /\ err' = "none"
                /\ stresses' = [k \in 1 .. n |-> UNINIT]
                /\ yield_strengths' = [k \in 1 .. n |-> UNINIT]
        /\ written' = [k \in 1 .. n |-> [s |-> 0, y |-> 0]]
    /\ hist' = <<>>
    /\ startPos' = pos
    /\ UNCHANGED <<i, vecVars, intVars, out, genVars, runs, nb, passes, par, cell>>

\* for i in range(N): the iterator is created and the loop entered.
LoopStart ==
    /\ cell = "loop" /\ pc = "configured"
    /\ pc' = "running"
    /\ i' = 0
    /\ UNCHANGED <<cell, err, N, hoopVars, vecVars, intVars, out, genVars, hist,
                   startPos, runs, envVars>>

\* One iteration of the loop body: three draws (radius, W, yield strength),
\* two array writes, the comparison and the count.
LoopTrial ==
    /\ cell = "loop" /\ pc = "running" /\ i < RangeLen(N)
    /\ \E d \in NextDraws(3) :
        LET s == simulated_stress(d[1], d[2])
            ys == simulated_yield_strength(d[3])
            fails == Exceeds(s, ys)
        IN  /\ stresses' = Store(stresses, i, s)
            /\ yield_strengths' = Store(yield_strengths, i, ys)
            /\ failures' = Counted(failures, fails)
            /\ written' = [written EXCEPT ![i + 1] = [s |-> @.s + 1, y |-> @.y + 1]]
            /\ hist' = Append(hist, [radius |-> Norm(60, CV5, d[1]),
                                     W |-> Norm(4, CV5, d[2]),
                                     ys |-> ys,
                                     counted |-> fails,
                                     at |-> pos])
            /\ Drawn(d)
    /\ i' = i + 1
    /\ UNCHANGED <<cell, pc, err, N, vecVars, intVars, out, startPos, runs, envVars>>

\* range(N) is exhausted: the cell ends.
LoopExit ==
    /\ cell = "loop" /\ pc = "running" /\ i >= RangeLen(N)
    /\ pc' = "completed"
    /\ UNCHANGED <<cell, err, N, i, hoopVars, vecVars, intVars, out, genVars, hist,
                   startPos, runs, envVars>>

\* failures / float(N): a Python int by a Python float; ZeroDivisionError when N is 0.
ProbCell ==
    /\ cell = "prob" /\ pc = "start"
    /\ IF N = 0
       THEN /\ pc' = "failed" /\ err' = "ZeroDivisionError"
            /\ UNCHANGED <<out, runs>>
       ELSE /\ pc' = "completed" /\ err' = "none"
            /\ out' = Probability(failures, N)
            /\ runs' = Append(runs, [N |-> N, start |-> startPos, failures |-> failures,
                                     probability |-> Probability(failures, N),
                                     stresses |-> stresses,
                                     yield_strengths |-> yield_strengths,
                                     hist |-> hist])
    /\ UNCHANGED <<cell, N, i, hoopVars, vecVars, intVars, genVars, hist, startPos, envVars>>

\* N = 10; ones = numpy.ones(N); numpy.sqrt(ones + 3 * ones)
AsideN == 10
AsideCell ==
    /\ cell = "aside" /\ pc = "start"
    /\ N' = AsideN
    /\ out' = [k \in 1 .. AsideN |-> Fin(2, 1)]
    /\ pc' = "completed"
    /\ UNCHANGED <<cell, err, i, hoopVars, vecVars, intVars, genVars, hist, startPos,
                   runs, envVars>>

\* --------------------------------------- hoop notebook: the vectorized form

\* N = ...; P = 10
VecSetup ==
    /\ cell = "vec" /\ pc = "start"
    /\ \E k \in Literals(cell) :
        /\ DrawsFit(3 * k.N)
        /\ config' = (cell :> k) @@ config
        /\ N' = k.N
    /\ pc' = "configured"
    /\ hist' = <<>>
    /\ startPos' = pos
    /\ UNCHANGED <<cell, err, i, hoopVars, vecVars, intVars, out, genVars, runs, nb, passes, par>>

\* scipy.stats.norm(mean, mean*cv).rvs(N): N draws at once; ValueError for N < 0.
RvsManyReversed(mean, cv, d) == [k \in 1 .. Len(d) |-> Norm(mean, cv, d[Len(d) + 1 - k])]
RvsMany(mean, cv, d) == [k \in 1 .. Len(d) |-> Norm(mean, cv, d[k])]

\* radius = scipy.stats.norm(60, 60*0.05).rvs(N)
VecRadius ==
    /\ cell = "vec" /\ pc = "configured"
    /\ IF N < 0
       THEN /\ pc' = "failed" /\ err' = "ValueError"
            /\ UNCHANGED <<radius, genVars>>
       ELSE /\ pc' = "radius" /\ err' = "none"
            /\ \E d \in NextDraws(N) : radius' = RvsMany(60, CV5, d) /\ Drawn(d)
    /\ UNCHANGED <<cell, N, i, hoopVars, W, yield_strength, intVars, out, hist,
                   startPos, runs, envVars>>

\* W = scipy.stats.norm(4, 4*0.05).rvs(N)
VecW ==
    /\ cell = "vec" /\ pc = "radius"
    /\ pc' = "W"
    /\ \E d \in NextDraws(N) : W' = RvsMany(4, CV5, d) /\ Drawn(d)
    /\ UNCHANGED <<cell, err, N, i, hoopVars, radius, yield_strength, intVars, out,
                   hist, startPos, runs, envVars>>

\* yield_strength = scipy.stats.norm(200, 200*0.1).rvs(N)
VecYield ==
    /\ cell = "vec" /\ pc = "W"
    /\ pc' = "yield_strength"
    /\ \E d \in NextDraws(N) : yield_strength' = RvsMany(200, CV10, d) /\ Drawn(d)
    /\ UNCHANGED <<cell, err, N, i, hoopVars, radius, W, intVars, out, hist,
                   startPos, runs, envVars>>

\* ((P * radius / W) > yield_strength).sum(): the number of True entries.
VecCountTies(r, w, ys) ==
    Cardinality({k \in 1 .. Len(r) :
        LET s == FDiv(FMul(FromInt(P), r[k]), w[k]) IN FGT(s, ys[k]) \/ s = ys[k]})
VecCount(r, w, ys) ==
    Cardinality({k \in 1 .. Len(r) : FGT(FDiv(FMul(FromInt(P), r[k]), w[k]), ys[k])})

\* ((P * radius / W) > yield_strength).sum() / float(N): a numpy integer by a
\* Python float, so N = 0 gives nan and no exception.
VecEstimate ==
    /\ cell = "vec" /\ pc = "yield_strength"
    /\ out' = FDiv(FromInt(VecCount(radius, W, yield_strength)), FromInt(N))
    /\ pc' = "completed"
    /\ UNCHANGED <<cell, err, N, i, hoopVars, vecVars, intVars, genVars, hist,
                   startPos, runs, envVars>>

\* ------------------------------------------------- integration notebook

\* sin and cos at the points the model samples, to three decimals.
Sin(a) ==
    CASE a = Fin(2, 1) -> Fin(909, 1000)
      [] a = Fin(5, 2) -> Fin(598, 1000)
      [] a = Fin(3, 1) -> Fin(141, 1000)

Cos(a) ==
    CASE a = Fin(256, 1) -> Fin(-40, 1000)
      [] a = Fin(625, 1) -> Fin(-984, 1000)

\* x**2
Integrand1(a) == FMul(a, a)

\* x**2 + 4*x*numpy.sin(x)
Integrand2(a) == FAdd(FMul(a, a), FMul(FMul(FromInt(4), a), Sin(a)))

\* numpy.cos(x**4) + 3 * y * y
Integrand2D(a, b) ==
    FAdd(Cos(FMul(FMul(a, a), FMul(a, a))), FMul(FMul(FromInt(3), b), b))

\* The bounds of the second coordinate of the 2D integral.
YDom == <<0, 1>>

\* Draws per trial.
Dim(c) == IF c = "int2d" THEN 2 ELSE 1

\* measure = 5 - 1; measure = 3 - 2; measure = 2 * 1
MeasureUpperOnly(c, d) == IF c = "int2d" THEN d[2] * YDom[2] ELSE d[2]
Measure(c, d) ==
    IF c = "int2d" THEN (d[2] - d[1]) * (YDom[2] - YDom[1]) ELSE d[2] - d[1]

\* N = ...; accum = 0
IntSetup ==
    /\ nb = "integration" /\ pc = "start"
    /\ \E k \in Literals(cell) :
        /\ DrawsFit(Dim(cell) * k.N)
        /\ config' = (cell :> k) @@ config
        /\ N' = k.N
        /\ dom' = k.dom
    /\ accum' = Fin(0, 1)
    /\ pc' = "configured"
    /\ err' = "none"
    /\ hist' = <<>>
    /\ startPos' = pos
    /\ UNCHANGED <<cell, i, hoopVars, vecVars, x, y, measure, out, genVars, runs, nb, passes,
                   par>>

\* for i in range(N): the iterator is created and the loop entered.
IntStart ==
    /\ nb = "integration" /\ pc = "configured"
    /\ pc' = "running"
    /\ i' = 0
    /\ UNCHANGED <<cell, err, N, hoopVars, vecVars, intVars, out, genVars, hist,
                   startPos, runs, envVars>>

\* One iteration: x = numpy.random.uniform(low, high) (and y in the 2D cell);
\* accum += integrand.
IntTrial ==
    /\ nb = "integration" /\ pc = "running" /\ i < RangeLen(N)
    /\ \E d \in NextDraws(Dim(cell)) :
        LET xs == Uniform(dom[1], dom[2], d[1])
            ysmp == IF cell = "int2d" THEN Uniform(YDom[1], YDom[2], d[2]) ELSE y
            f == CASE cell = "int1" -> Integrand1(xs)
                   [] cell = "int2" -> Integrand2(xs)
                   [] cell = "int2d" -> Integrand2D(xs, ysmp)
        IN  /\ x' = xs
            /\ y' = ysmp
            /\ accum' = FAdd(accum, f)
            /\ hist' = Append(hist, [x |-> xs, y |-> ysmp, f |-> f, at |-> pos])
            /\ Drawn(d)
    /\ i' = i + 1
    /\ UNCHANGED <<cell, pc, err, N, hoopVars, vecVars, measure, dom, out, startPos,
                   runs, envVars>>

\* measure = ...; measure * accum/float(N).  With no iteration accum is still
\* the Python int 0, and an int by float(0) raises ZeroDivisionError.
IntFinish ==
    /\ nb = "integration" /\ pc = "running" /\ i >= RangeLen(N)
    /\ measure' = Measure(cell, dom)
    /\ IF N = 0
       THEN /\ pc' = "failed" /\ err' = "ZeroDivisionError"
            /\ UNCHANGED out
       ELSE /\ pc' = "completed" /\ err' = "none"
            /\ out' = FDiv(FMul(FromInt(Measure(cell, dom)), accum), FromInt(N))
    /\ UNCHANGED <<cell, N, i, hoopVars, vecVars, accum, x, y, dom, genVars, hist,
                   startPos, runs, envVars>>

\* ------------------------------------------------------------ the kernel

Last(c) == c = CellsOf(nb)[Len(CellsOf(nb))]
Succ(c) == CellsOf(nb)[(CHOOSE k \in 1 .. Len(CellsOf(nb)) : CellsOf(nb)[k] = c) + 1]

\* Cells that run a simulation, i.e. draw from the generator.
SimCells == {"loop", "vec", "int1", "int2", "int2d"}

\* The next cell of the notebook is run.
NextCell ==
    /\ pc = "completed" /\ ~Last(cell)
    /\ cell' = Succ(cell)
    /\ pc' = "start"
    /\ UNCHANGED <<err, N, i, hoopVars, vecVars, intVars, out, genVars, hist, startPos,
                   runs, envVars>>

\* The notebook is run again from its first cell, in the same kernel: after
\* the experiment has given its estimate, or after the exception that stopped
\* it.
RunAgain ==
    /\ (pc = "completed" /\ cell # CellsOf(nb)[1]) \/ pc = "failed"
    /\ passes < MaxPasses
    /\ passes' = passes + 1
    /\ cell' = CellsOf(nb)[1]
    /\ pc' = "start"
    /\ UNCHANGED <<nb, config, par, err, N, i, hoopVars, vecVars, intVars, out, genVars,
                   hist, startPos, runs>>

\* The cells run in any order: the loop-form cells of the hoop notebook and
\* the cells of the integration notebook.
Pickable == {"loop", "prob", "aside", "int1", "int2", "int2d"}

\* Any of these cells is picked and run, once the cell before it has ended.
\* The cell that divides failures by N is picked only after the loop
\* cell has defined them (before that it stops with a NameError and changes
\* nothing).
RunCell ==
    /\ pc \in {"completed", "failed"}
    /\ passes < MaxPasses
    /\ passes' = passes + 1
    /\ \E c \in {CellsOf(nb)[k] : k \in DOMAIN CellsOf(nb)} \cap Pickable :
        /\ c = "prob" => "loop" \in DOMAIN config
        /\ cell' = c
    /\ pc' = "start"
    /\ UNCHANGED <<nb, config, par, err, N, i, hoopVars, vecVars, intVars, out, genVars,
                   hist, startPos, runs>>

\* The generator is put back to the state its seed gives it, before a
\* simulation cell runs.
Reseed ==
    /\ pc = "start" /\ cell \in SimCells
    /\ pos > 0
    /\ pos' = 0
    /\ UNCHANGED <<nb, config, passes, par, cell, pc, err, N, i, hoopVars, vecVars, intVars,
                   out, tape, hist, startPos, runs>>

\* ------------------------------------------------------------ workers

\* The workers a run's trials may be split among.
Workers == {"w1", "w2"}

\* No split has been made.
NoWorkers == [phase |-> "idle", share |-> <<>>, done |-> {}, partial |-> <<>>,
              merged |-> {}, total |-> 0]

\* The trials of worker w, and those it has still to do.
Share(w) == {k \in DOMAIN par.share : par.share[k] = w}
Todo(w) == Share(w) \ par.done

\* The N trial outputs of the finished loop are split among the workers, in any
\* way; each worker starts its private count as the loop starts failures.
Split ==
    /\ cell = "loop" /\ pc = "completed" /\ N > 0
    /\ par.phase = "idle"
    /\ \E sh \in [1 .. N -> Workers] :
        par' = [phase |-> "counting", share |-> sh, done |-> {},
                partial |-> [w \in Workers |-> InitialFailures],
                merged |-> {}, total |-> 0]
    /\ UNCHANGED <<nb, config, passes, cell, pc, err, N, i, hoopVars, vecVars, intVars,
                   out, genVars, hist, startPos, runs>>

\* A worker does the next trial of its share: the loop's comparison and count,
\* on its private count.
WorkerTrial ==
    /\ par.phase = "counting"
    /\ \E w \in Workers :
        /\ Todo(w) # {}
        /\ LET k == CHOOSE m \in Todo(w) : \A n \in Todo(w) : m <= n
           IN  par' = [par EXCEPT
                         !.done = @ \cup {k},
                         !.partial[w] = Counted(@, Exceeds(stresses[k], yield_strengths[k]))]
    /\ UNCHANGED <<nb, config, passes, cell, pc, err, N, i, hoopVars, vecVars, intVars,
                   out, genVars, hist, startPos, runs>>

\* Once every worker has finished, the private counts are added up, in any order.
Combine ==
    /\ par.phase = "counting"
    /\ par.done = DOMAIN par.share
    /\ \E w \in Workers \ par.merged :
        par' = [par EXCEPT
                  !.merged = @ \cup {w},
                  !.total = @ + par.partial[w],
                  !.phase = IF par.merged \cup {w} = Workers THEN "combined" ELSE @]
    /\ UNCHANGED <<nb, config, passes, cell, pc, err, N, i, hoopVars, vecVars, intVars,
                   out, genVars, hist, startPos, runs>>

Init ==
    /\ nb \in {"hoop", "integration"}
    /\ config = <<>>
    /\ cell = CellsOf(nb)[1]
    /\ pc = "start"
    /\ err = "none"
    /\ N = 0
    /\ i = 0
    /\ failures = 0
    /\ stresses = <<>>
    /\ yield_strengths = <<>>
    /\ radius = <<>>
    /\ W = <<>>
    /\ yield_strength = <<>>
    /\ accum = Fin(0, 1)
    /\ x = Fin(0, 1)
    /\ y = Fin(0, 1)
    /\ measure = 0
    /\ dom = <<0, 0>>
    /\ out = <<>>
    /\ tape = <<>>
    /\ pos = 0
    /\ hist = <<>>
    /\ written = <<>>
    /\ startPos = 0
    /\ runs = <<>>
    /\ passes = 1
    /\ par = NoWorkers

Next ==
    \/ LoopSetup
    \/ LoopStart
    \/ LoopTrial
    \/ LoopExit
    \/ ProbCell
    \/ AsideCell
    \/ VecSetup
    \/ VecRadius
    \/ VecW
    \/ VecYield
    \/ VecEstimate
    \/ IntSetup
    \/ IntStart
    \/ IntTrial
    \/ IntFinish
    \/ NextCell
    \/ Reseed

\* One run of a notebook, top to bottom.
Spec == Init /\ [][Next]_vars

\* The loop form of the hoop experiment (the loop cell, then the cell that
\* divides by N), run up to MaxPasses times in one kernel.
InitHoop == Init /\ nb = "hoop"

LoopThenProb == cell = "loop" /\ NextCell

NextRerun ==
    \/ LoopSetup
    \/ LoopStart
    \/ LoopTrial
    \/ LoopExit
    \/ LoopThenProb
    \/ ProbCell
    \/ RunAgain
    \/ Reseed

SpecRerun == InitHoop /\ [][NextRerun]_vars

\* The loop cell of the hoop experiment, and then its trials counted again by
\* workers.
NextWorkers ==
    \/ LoopSetup
    \/ LoopStart
    \/ LoopTrial
    \/ LoopExit
    \/ Split
    \/ WorkerTrial
    \/ Combine

SpecWorkers == InitHoop /\ [][NextWorkers]_vars

\* The cells of a notebook run one after the other in any order, each any
\* number of times (the vectorized cell, which has no accumulator, is left out).
NextAnyOrder ==
    \/ LoopSetup
    \/ LoopStart
    \/ LoopTrial
    \/ LoopExit
    \/ ProbCell
    \/ AsideCell
    \/ IntSetup
    \/ IntStart
    \/ IntTrial
    \/ IntFinish
    \/ RunCell

SpecAnyOrder == Init /\ [][NextAnyOrder]_vars

\* The loop form of the hoop experiment and the cells of the integration
\* notebook, run once by a kernel that keeps executing: whenever a statement can
\* run, one eventually does.
IntNextCell == nb = "integration" /\ NextCell

NextLive ==
    \/ LoopSetup
    \/ LoopStart
    \/ LoopTrial
    \/ LoopExit
    \/ LoopThenProb
    \/ ProbCell
    \/ IntSetup
    \/ IntStart
    \/ IntTrial
    \/ IntFinish
    \/ IntNextCell
    \/ Reseed

SpecLive == Init /\ [][NextLive]_vars /\ WF_vars(NextLive)

\* ================================================================ claims

\* The failure-probability run of the loop form has produced its estimate.
ProbDone == cell = "prob" /\ pc = "completed"

\* An integration cell has produced its estimate.
IntDone == nb = "integration" /\ pc = "completed"

\* The vectorized form has produced its estimate.
VecDone == cell = "vec" /\ pc = "completed"

\* The trials of the current run whose stress is strictly above the strength.
StrictFailures == {k \in 1 .. N : FGT(stresses[k], yield_strengths[k])}

\* 0 <= a <= 1
InUnit(a) == IsFin(a) /\ a[2] >= 0 /\ a[2] <= a[3]

\* C1: the failure-probability estimate of a run with N > 0 trials is the
\* number of trials with stress strictly above strength, divided by N; a trial
\* with stress equal to strength is not counted, and nothing is added.
C1_EstimateIsStrictCountOverN ==
    (ProbDone /\ N > 0) =>
        /\ failures = Cardinality(StrictFailures)
        /\ out = Fin(Cardinality(StrictFailures), N)
        /\ \A k \in 1 .. N : stresses[k] = yield_strengths[k] => ~hist[k].counted

\* A run of two trials, one a tie and one a failure, has been estimated.
C1_Witness ==
    /\ ProbDone /\ N = 2
    /\ \E k \in 1 .. N : stresses[k] = yield_strengths[k]
    /\ \E k \in 1 .. N : hist[k].counted

\* C2: whenever the failure probability is computed for N > 0, by the loop
\* form or by the vectorized form, it lies in [0, 1].
C2_ProbabilityInUnitInterval ==
    ((ProbDone \/ VecDone) /\ N > 0) => InUnit(out)

\* A run of two trials that both fail reports the upper end, 1.
C2_Witness == ProbDone /\ N = 2 /\ out = Fin(1, 1)

\* The product of the lengths of the sampled intervals of the current cell.
DomainMeasure ==
    IF cell = "int2d" THEN (dom[2] - dom[1]) * (YDom[2] - YDom[1]) ELSE dom[2] - dom[1]

\* The integrand values of the executed trials, in order.
IntegrandValues == [k \in 1 .. Len(hist) |-> hist[k].f]

\* C3: the integral estimate of a run with N > 0 trials is domainMeasure times
\* (the sum of the N integrand values over N), domainMeasure being 5-1 for
\* [1,5], 3-2 for [2,3] and (6-4)*(1-0) for the 2D domain.
C3_EstimateIsMeasureTimesMean ==
    (IntDone /\ N > 0) =>
        /\ Len(hist) = N
        /\ out = FMul(FromInt(DomainMeasure), FDiv(SumSeq(IntegrandValues), FromInt(N)))
        /\ measure = DomainMeasure
        /\ (cell = "int1" /\ dom = <<1, 5>>) => measure = 5 - 1
        /\ (cell = "int2" /\ dom = <<2, 3>>) => measure = 3 - 2
        /\ cell = "int2d" => measure = (6 - 4) * (1 - 0)

\* The 2D integral has been estimated from two trials.
C3_Witness == IntDone /\ cell = "int2d" /\ N = 2 /\ hist[1].f # hist[2].f

\* The state of the experiment driver.  The loop form of the hoop experiment
\* spans the loop cell and the cell that divides by N; between the two its
\* trials are done and its estimate is pending.
DriverState ==
    CASE pc = "failed" -> "Failed"
      [] cell = "loop" /\ pc = "start" -> "Idle"
      [] cell = "loop" /\ pc = "configured" -> "Configured"
      [] cell = "loop" /\ pc \in {"running", "completed"} -> "Running"
      [] cell = "prob" /\ pc = "start" -> "Running"
      [] cell = "prob" /\ pc = "completed" -> "Completed"
      [] nb = "integration" /\ pc = "start" -> "Idle"
      [] nb = "integration" /\ pc = "configured" -> "Configured"
      [] nb = "integration" /\ pc = "running" -> "Running"
      [] nb = "integration" /\ pc = "completed" -> "Completed"
      [] OTHER -> "Other"

\* C4: a run configured with N <= 0 fails at configuration time, before any
\* sample is drawn and any trial executes, and produces no Result: it is never
\* Running and never Completed.
C4_NonPositiveNFailsAtConfiguration ==
    (N <= 0 /\ (cell \in {"loop", "prob"} \/ nb = "integration") /\ pc # "start") =>
        DriverState \in {"Configured", "Failed"}

\* C5: a uniform distribution with low >= high is rejected: no sample is
\* produced from it.
C5_DegenerateUniformRejected ==
    (nb = "integration" /\ pc # "start" /\ dom[1] >= dom[2]) => hist = <<>>

\* The driver's moves the claim C6 allows.  A failure of the configuring
\* statements themselves (numpy.empty of a negative size) counts as
\* Configured -> Failed.
DriverMoves ==
    {<<"Idle", "Configured">>, <<"Idle", "Failed">>, <<"Configured", "Running">>,
     <<"Configured", "Failed">>, <<"Running", "Running">>, <<"Running", "Completed">>,
     <<"Completed", "Idle">>, <<"Completed", "Other">>, <<"Other", "Other">>,
     <<"Other", "Failed">>, <<"Other", "Idle">>, <<"Failed", "Idle">>}

\* C6: the driver moves only Configured -> Running -> Completed, or
\* Configured -> Failed; while Running the trials execute one at a time in
\* index order; the estimate is computed only after exactly N trials.
C6_DriverLifecycle ==
    [][/\ <<DriverState, DriverState'>> \in DriverMoves
       /\ (DriverState = "Running" /\ DriverState' = "Running") =>
             (i' = i \/ (i' = i + 1 /\ Len(hist') = i'))
       /\ DriverState' = "Completed" => (i' = N' /\ Len(hist') = N')]_vars

\* C7: two runs of the loop form with the same N that start from the same
\* state of the generator (the same seed) give the same failure count, the
\* same probability and the same raw samples.
C7_SameSeedSameResult ==
    \A a, b \in DOMAIN runs :
        (runs[a].N = runs[b].N /\ runs[a].start = runs[b].start) =>
            /\ runs[a].failures = runs[b].failures
            /\ runs[a].probability = runs[b].probability
            /\ runs[a].stresses = runs[b].stresses
            /\ runs[a].yield_strengths = runs[b].yield_strengths

\* Two runs of two trials from the same generator state, with a failure.
C7_Witness ==
    /\ Len(runs) = 2
    /\ runs[1].N = 2 /\ runs[2].N = 2
    /\ runs[1].start = runs[2].start
    /\ runs[2].failures = 1

\* The vectorized form has drawn, trial by trial, the samples of loop run r.
SameSamples(r) ==
    /\ N = r.N
    /\ Len(radius) = N /\ Len(W) = N /\ Len(yield_strength) = N
    /\ \A k \in 1 .. N :
        /\ radius[k] = r.hist[k].radius
        /\ W[k] = r.hist[k].W
        /\ yield_strength[k] = r.hist[k].ys

\* C8: the loop form (running count) and the vectorized form (all trial
\* outputs first, then the aggregate) give the same estimate on the same N
\* per-trial samples.
C8_LoopAndVectorizedAgree ==
    (VecDone /\ N > 0) =>
        \A a \in DOMAIN runs : SameSamples(runs[a]) => out = runs[a].probability

\* Both forms have run on the same two trials, one of which fails.
C8_Witness ==
    /\ VecDone /\ N = 2
    /\ \E a \in DOMAIN runs : SameSamples(runs[a]) /\ runs[a].failures = 1

\* C9: a trial whose wall thickness is exactly zero does not abort the run: its
\* stress is inf, -inf or nan, it counts as a failure exactly when the stress
\* is inf, the loop goes on to its N-th trial, and the estimate is produced.
C9_ZeroThicknessPropagates ==
    /\ (cell = "loop" /\ pc = "failed") => N < 0
    /\ (cell = "prob" /\ pc = "failed") => N = 0
    /\ (cell = "loop" /\ pc \in {"running", "completed"}) =>
          \A k \in 1 .. Len(hist) :
              hist[k].W = Fin(0, 1) =>
                  /\ stresses[k] \in {INF, NINF, NAN}
                  /\ hist[k].counted <=> stresses[k] = INF
                  /\ stresses[k] = NAN => ~hist[k].counted
    /\ (cell = "loop" /\ pc = "completed") => Len(hist) = RangeLen(N)

\* A run with an infinite stress (counted) and a nan stress (not counted) has
\* produced its estimate.
C9_Witness ==
    /\ ProbDone /\ N = 2
    /\ \E k \in 1 .. N : hist[k].W = Fin(0, 1) /\ stresses[k] = INF /\ hist[k].counted
    /\ \E k \in 1 .. N : hist[k].W = Fin(0, 1) /\ stresses[k] = NAN /\ ~hist[k].counted
    /\ out = Fin(1, 2)

\* C10: after the loop, stresses and yield_strengths have exactly N entries,
\* each written by exactly one executed trial.
C10_RawSampleCountIsN ==
    (cell = "loop" /\ pc = "completed") =>
        /\ Len(stresses) = N /\ Len(yield_strengths) = N
        /\ Len(hist) = N
        /\ \A k \in 1 .. N :
            /\ written[k] = [s |-> 1, y |-> 1]
            /\ stresses[k] # UNINIT /\ yield_strengths[k] # UNINIT

\* The loop has ended after two trials.
C10_Witness == cell = "loop" /\ pc = "completed" /\ N = 2 /\ Len(stresses) = 2

\* C11: with N = 1 both experiments run without error and give a valid
\* result: the failure probability is exactly 0 or 1, and the integral
\* estimate is the domain measure times the single integrand value.
C11_SingleTrialIsValid ==
    /\ (pc = "failed" /\ cell \in SimCells \cup {"prob"}) => N # 1
    /\ (ProbDone /\ N = 1) =>
          /\ Len(hist) = 1
          /\ out \in {Fin(0, 1), Fin(1, 1)}
          /\ out = Fin(1, 1) <=> FGT(stresses[1], yield_strengths[1])
    /\ (VecDone /\ N = 1) => out \in {Fin(0, 1), Fin(1, 1)}
    /\ (IntDone /\ N = 1) =>
          /\ Len(hist) = 1
          /\ out = FMul(FromInt(DomainMeasure), hist[1].f)

\* The first integral has been estimated from one trial that sampled x = 3.
C11_Witness ==
    /\ IntDone /\ cell = "int1" /\ N = 1 /\ dom = <<1, 5>>
    /\ x = Fin(3, 1) /\ out = Fin(36, 1)

\* The loop form has estimated a probability of 1 from one failing trial.
C11_WitnessHoop == ProbDone /\ N = 1 /\ out = Fin(1, 1)

\* C12: when the N trials of a run are split among workers that each count
\* into a private partial count, added up only at the end, then for every
\* split and every order of adding the total is the count the one sequential
\* pass over the same trial outputs gives.
C12_PartialCountsCombineToSequential ==
    par.phase = "combined" =>
        /\ par.total = failures
        /\ par.total = Cardinality(StrictFailures)

\* Two failing trials, one counted by each worker, have been added up.
C12_Witness ==
    /\ par.phase = "combined" /\ N = 2
    /\ par.partial = [w \in Workers |-> 1]
    /\ par.total = 2

\* A simulation with N > 0 has been configured.
RunConfigured == pc = "configured" /\ N > 0

\* The run that was configured has produced its estimate.
RunEnded == (ProbDone \/ IntDone) /\ N > 0

\* C13: for every N > 0 a run terminates: once configured it goes on to
\* produce its estimate, it cannot fail on the way, and its loop ends only
\* when N trials have completed.
C13_RunTerminatesAfterNTrials ==
    /\ RunConfigured ~> RunEnded
    /\ [](N > 0 => pc # "failed")
    /\ []((N > 0 /\ pc = "completed" /\ cell \in {"loop", "int1", "int2", "int2d"}) =>
            (i = N /\ Len(hist) = N))

\* The second integral has ended after its two trials.
C13_Witness == IntDone /\ cell = "int2" /\ N = 2 /\ i = 2 /\ Len(hist) = 2

\* pressure * r / w of two finite samples, for the pressure 10: the quotient
\* of 10 * r by w, and for w = 0 the infinity of the sign of r, or nan.
HoopStress(r, w) ==
    IF w[2] # 0 THEN Fin(10 * r[2] * w[3], r[3] * w[2])
    ELSE IF r[2] > 0 THEN INF
    ELSE IF r[2] < 0 THEN NINF
    ELSE NAN

\* The sample the generator gave at position k of its stream, as a normal
\* sample of the given mean and coefficient of variation.
SampleAt(mean, cv, k) == Norm(mean, cv, tape[k])

\* C14: in every trial the stress is pressure * radius / wall thickness of
\* that trial's radius and wall thickness samples, with the pressure 10 in
\* every trial, and the yield strength is its single normal sample unchanged;
\* the vectorized form compares the same quotient.
C14_StressIsPressureRadiusOverThickness ==
    /\ (cell = "loop" /\ pc \in {"running", "completed"}) =>
          \A k \in 1 .. Len(hist) :
              /\ hist[k].radius = SampleAt(60, CV5, hist[k].at + 1)
              /\ hist[k].W = SampleAt(4, CV5, hist[k].at + 2)
              /\ stresses[k] = HoopStress(hist[k].radius, hist[k].W)
              /\ yield_strengths[k] = SampleAt(200, CV10, hist[k].at + 3)
    /\ (VecDone /\ N > 0) =>
          out = Fin(Cardinality({k \in 1 .. N :
                        FGT(HoopStress(radius[k], W[k]), yield_strength[k])}), N)

\* The loop has ended after two trials with stresses 10 * 60 / 4 and 10 * 60 / 2.
C14_Witness ==
    /\ cell = "loop" /\ pc = "completed" /\ N = 2
    /\ stresses = <<Fin(150, 1), Fin(300, 1)>>

\* C17: trial k of the loop form (k = 1 .. N) uses the three consecutive draws
\* 3(k-1)+1 .. 3(k-1)+3 of the run, as radius, wall thickness and yield
\* strength in this order, with no draw shared or skipped; the vectorized form
\* takes the run's draws 1 .. N as radii, N+1 .. 2N as wall thicknesses and
\* 2N+1 .. 3N as yield strengths.
C17_DrawOrder ==
    /\ (cell = "loop" /\ pc \in {"running", "completed"}) =>
          /\ pos = startPos + 3 * Len(hist)
          /\ \A k \in 1 .. Len(hist) :
              /\ hist[k].at = startPos + 3 * (k - 1)
              /\ hist[k].radius = SampleAt(60, CV5, startPos + 3 * (k - 1) + 1)
              /\ hist[k].W = SampleAt(4, CV5, startPos + 3 * (k - 1) + 2)
              /\ hist[k].ys = SampleAt(200, CV10, startPos + 3 * (k - 1) + 3)
    /\ (cell = "loop" /\ pc = "completed") => pos = startPos + 3 * N
    /\ (VecDone /\ N > 0) =>
          /\ pos = startPos + 3 * N
          /\ \A k \in 1 .. N :
              /\ radius[k] = SampleAt(60, CV5, startPos + k)
              /\ W[k] = SampleAt(4, CV5, startPos + N + k)
              /\ yield_strength[k] = SampleAt(200, CV10, startPos + 2 * N + k)

\* The vectorized form has run on the stream a loop of two trials drew before:
\* the loop took its radii from draws 1 and 4, the vectorized form from draws 1
\* and 2.
C17_Witness ==
    /\ VecDone /\ N = 2 /\ startPos = 0
    /\ Len(runs) = 1 /\ runs[1].N = 2 /\ runs[1].start = 0
    /\ runs[1].hist[1].at = 0 /\ runs[1].hist[2].at = 3
    /\ tape[1] # tape[2] /\ radius[1] # radius[2]

\* The trials of the current execution that were counted as failures.
CountedNow == {k \in 1 .. Len(hist) : hist[k].counted}

\* C18: whatever cells ran before and in whatever order, at the end of a
\* simulation cell the accumulator holds the trials of this execution only:
\* failures is the number of failing trials among the N just executed, with
\* 0 <= failures <= N, and accum is the sum of the integrand values just
\* sampled.
C18_AccumulatorIsOfThisExecution ==
    /\ (cell = "loop" /\ pc = "completed") =>
          /\ Len(hist) = N
          /\ failures = Cardinality(CountedNow)
          /\ failures = Cardinality(StrictFailures)
          /\ 0 <= failures /\ failures <= N
    /\ (nb = "integration" /\ pc = "completed") =>
          /\ Len(hist) = RangeLen(N)
          /\ accum = SumSeq(IntegrandValues)

\* The loop cell has ended for the second time: its first execution, on the
\* draws 1 .. 3, counted a failure, this one, on the draws 4 .. 6, none.
C18_Witness ==
    /\ cell = "loop" /\ pc = "completed" /\ N = 1
    /\ startPos = 3 /\ pos = 6
    /\ FGT(HoopStress(SampleAt(60, CV5, 1), SampleAt(4, CV5, 2)), SampleAt(200, CV10, 3))
    /\ failures = 0

\* The failure-counting loop is being executed, or has just ended.
InLoop == cell = "loop" /\ pc \in {"running", "completed"}

\* C19: at every point of the failure-counting loop, after i trials,
\* 0 <= failures <= i <= N; failures never decreases, and a trial increases
\* it by exactly 1 when its stress is strictly above its yield strength and
\* leaves it unchanged otherwise.
C19_FailuresCountWithinLoop ==
    /\ [](InLoop => (0 <= failures /\ failures <= i /\ i <= N))
    /\ [][(InLoop /\ InLoop') =>
            /\ failures' >= failures
            /\ failures' <= failures + 1
            /\ i' \in {i, i + 1}
            /\ i' = i => failures' = failures
            /\ i' = i + 1 =>
                 (failures' = failures + 1 <=> FGT(stresses'[i'], yield_strengths'[i']))]_vars

\* Half way through a loop of two trials, the first of which failed.
C19_Witness == cell = "loop" /\ pc = "running" /\ N = 2 /\ i = 1 /\ failures = 1

\* The first integral (x^2 over [1, 5)) is in its loop, or has ended.
InFirstIntegral ==
    cell = "int1" /\ dom = <<1, 5>> /\ pc \in {"running", "completed"} /\ N > 0

\* lo <= a < hi, for a float a and integers lo, hi.
Within(a, lo, hi) == IsFin(a) /\ ~FGT(FromInt(lo), a) /\ FGT(FromInt(hi), a)

C21_LoopFrame ==
    /\ [](InLoop =>
            /\ config["loop"].N = N
            /\ \A k \in 1 .. Len(hist) :
                  /\ hist[k].radius = SampleAt(60, CV5, hist[k].at + 1)
                  /\ hist[k].W = SampleAt(4, CV5, hist[k].at + 2)
                  /\ stresses[k] = HoopStress(hist[k].radius, hist[k].W)
                  /\ yield_strengths[k] = hist[k].ys)
    /\ [][(InLoop /\ InLoop') =>
            /\ N' = N /\ config' = config
            /\ Len(stresses') = N /\ Len(yield_strengths') = N
            /\ \A k \in 1 .. N :
                  (k # i + 1 \/ i' = i) =>
                      /\ stresses'[k] = stresses[k]
                      /\ yield_strengths'[k] = yield_strengths[k]]_vars

\* The loop has ended after two trials; the entry the first trial wrote, an
\* infinite stress, is still there after the second wrote 75.
C21_Witness ==
    /\ cell = "loop" /\ pc = "completed" /\ N = 2
    /\ hist[1].W = Fin(0, 1) /\ stresses[1] = INF /\ stresses[2] = Fin(75, 1)
    /\ yield_strengths[1] # yield_strengths[2]

====
